---- MODULE Spec2Model ----
(***************************************************************************)
(* CAT-PUMA in JavaScript: the conditioning pipeline of a CME arrival-time *)
(* predictor.  Two files hold two variants of the same pipeline:           *)
(*   "main"  src/main.js            (serialized SVM engine)                *)
(*   "part"  src/unnamed/part_000   (TensorFlow.js network)                *)
(* Each variant has getMean, readOmni, getSvmInput and an entry point.     *)
(*                                                                         *)
(* Numbers.  A raw token of the OMNI file carries its value in tenths      *)
(* (999.9 is 9999).  Every float produced by the program (an average, a    *)
(* snapshot field, a vector entry) is carried in units of 1e-5, so that    *)
(* toFixed(5) is a rounding to an integer and 1e-5 is the integer 1.       *)
(***************************************************************************)
EXTENDS Integers, Sequences, FiniteSets, TLC

VARIABLES
    variant,    \* which file's code runs: "main" or "part"
    \* ---- one call of getMean
    array, low, high, nullValue,  \* the parameters (low, high are reassigned)
    flag,       \* main.js:8
    avg,        \* main.js:14, part_000:7
    mpc,        \* position in getMean: "call", "test", "body", "exit", "done"
    ret,        \* the value returned
    arg,        \* the arguments as passed: [low, high]
    \* ---- one call (and a repeated call) of getSvmInput
    info, features, x,
    spc,        \* "call", "once", "twice", "idle"
    passed,     \* the caller's feature list as it was before the first call
    x1,         \* the vector of the first call
    \* ---- one run of the entry point
    rpc,        \* position of the run
    time,       \* onset time
    response,   \* how the archive answered the fetch, with the rows of its body
    fetches,    \* number of axios.get calls issued
    wind,       \* what readOmni resolved to
    travel,     \* the predictor's transit time
    log         \* lines written by console.log / console.error

meanVars == <<array, low, high, nullValue, flag, avg, mpc, ret, arg>>
svmVars  == <<info, features, x, spc, passed, x1>>
runVars  == <<rpc, time, response, fetches, wind, travel, log>>
vars     == <<variant, meanVars, svmVars, runVars>>

Variants == {"main", "part"}

(***************************************************************************)
(* Raw tokens and JavaScript's two parsers                                 *)
(***************************************************************************)
\* A whitespace-separated token of the file with a numeric prefix; t is its
\* value in tenths.
Tok(t) == [num |-> TRUE, t |-> t]
\* A token without a numeric value: a word, or the undefined that row[c]
\* gives on a short or blank line.
NoNumber == [num |-> FALSE, t |-> 0]

\* isNaN(parseFloat(value))
parseFloatIsNaN(value) == ~value.num
\* parseInt(value): the integer part, truncated toward zero.
parseInt(value) ==
    IF value.t >= 0 THEN value.t \div 10 ELSE -((-value.t) \div 10)
\* parseFloat(value) of a numeric token, in units of 1e-5.
parseFloat5(value) == value.t * 10000

\* The filter callback: parseInt(value) !== nullValue && !isNaN(parseFloat(value)).
\* parseInt of a token without a number is NaN, which differs from every nullValue.
keep(value, null) ==
    /\ (parseFloatIsNaN(value) \/ parseInt(value) # null)
    /\ ~parseFloatIsNaN(value)

(***************************************************************************)
(* Array.prototype.slice and filter                                        *)
(***************************************************************************)
Max(a, b) == IF a >= b THEN a ELSE b
Min(a, b) == IF a <= b THEN a ELSE b

\* The first index (0-based) slice(start, _) takes: a negative start counts
\* from the end of the array.
sliceFrom(len, start) == IF start < 0 THEN Max(len + start, 0) ELSE Min(start, len)

\* array.slice(start, end): the elements with 0-based index in [from, to).
slice(arr, start, end) ==
    LET len  == Len(arr)
        from == sliceFrom(len, start)
        to   == sliceFrom(len, end)
    IN  IF to > from THEN [i \in 1..(to - from) |-> arr[from + i]] ELSE <<>>

\* .filter(value => ...): the kept elements, in order.
filterKeep(s, null) == SelectSeq(s, LAMBDA value : keep(value, null))

RECURSIVE sum5(_)
\* reduce((sum, value) => sum + parseFloat(value), 0)
sum5(s) == IF s = <<>> THEN 0 ELSE parseFloat5(Head(s)) + sum5(Tail(s))

(***************************************************************************)
(* Averages: NaN, or the rational n/d in units of 1e-5                     *)
(***************************************************************************)
NaN == [nan |-> TRUE, n |-> 0, d |-> 1]
Ratio(n, d) == [nan |-> FALSE, n |-> n, d |-> d]
\* The literal 1e-5.
Fallback == Ratio(1, 1)

\* n/d rounded to the nearest integer, a tie away from zero (toFixed).
RoundDiv(n, d) ==
    IF n >= 0 THEN (2 * n + d) \div (2 * d) ELSE -((2 * (-n) + d) \div (2 * d))

\* avg.toFixed(5): the decimal string, carried as the integer count of 1e-5.
toFixed5(a) == RoundDiv(a.n, a.d)

\* A JavaScript value: a string of digits, a number, or undefined.
Str(v) == [t |-> "string", v |-> v]
Number(v) == [t |-> "number", v |-> v]
Undefined == [t |-> "undefined", v |-> 0]

WidthLimit == 24

(***************************************************************************)
(* getMean                                                                 *)
(***************************************************************************)
\* The locals of a call.
MeanState(arr, lo, hi, null, fl, a) ==
    [array |-> arr, low |-> lo, high |-> hi, nullValue |-> null, flag |-> fl, avg |-> a]

\* Up to the loop.  main.js swaps a reversed range and remembers it in flag;
\* part_000 takes low and high as they come.
getMeanEntry(v, arr, lo, hi, null) ==
    IF v = "main" /\ lo > hi
    THEN MeanState(arr, hi, lo, null, 1, NaN)
    ELSE MeanState(arr, lo, hi, null, 0, NaN)

\* The filtered slice and its mean, NaN when nothing is kept.
dustOf(st) == filterKeep(slice(st.array, st.low, st.high + 1), st.nullValue)
meanOf(dust) == IF Len(dust) # 0 THEN Ratio(sum5(dust), Len(dust)) ELSE NaN

\* main.js:24-30.  A start at or below -length slices from row 0, and an end
\* at or above length slices to the last row: from there on every further
\* step of low (of high) repeats the same iteration for ever, and the model
\* keeps the index where it is, which makes the endless descent a cycle.
widenMain(st) ==
    IF st.flag = 0
    THEN [st EXCEPT !.low = IF st.low <= -Len(st.array) THEN st.low ELSE st.low - 1]
    ELSE [st EXCEPT !.high = IF st.high + 1 >= Len(st.array) THEN st.high ELSE st.high + 1]

\* part_000:18-21.
widenPart(st) == [st EXCEPT !.low = st.low - 1, !.high = st.high + 1]

\* part_000:23-25, inside the loop.
limitPart(st) ==
    IF st.high - st.low > WidthLimit THEN [st EXCEPT !.avg = Fallback] ELSE st

\* One pass of the while body.
getMeanBody(v, st) ==
    LET s1 == [st EXCEPT !.avg = meanOf(dustOf(st))]
    IN  IF v = "main"
        THEN IF s1.avg.nan THEN widenMain(s1) ELSE s1
        ELSE limitPart(IF s1.avg.nan THEN widenPart(s1) ELSE s1)

\* After the loop.  main.js applies the width limit here and returns the
\* string of toFixed; part_000 returns parseFloat of that string.
getMeanExit(v, st) ==
    IF v = "main"
    THEN Str(toFixed5(IF st.high - st.low > WidthLimit THEN Fallback ELSE st.avg))
    ELSE Number(toFixed5(st.avg))

\* The whole call: the value returned, or Hangs when the loop comes back to
\* a state it was in.
Hangs == [t |-> "hangs", v |-> 0]
RECURSIVE getMeanLoop(_, _)
getMeanLoop(v, st) ==
    IF ~st.avg.nan THEN getMeanExit(v, st)
    ELSE LET s2 == getMeanBody(v, st)
         IN  IF s2 = st THEN Hangs ELSE getMeanLoop(v, s2)
getMean(v, arr, lo, hi, null) == getMeanLoop(v, getMeanEntry(v, arr, lo, hi, null))

(***************************************************************************)
(* Specification SpecMean: one call of getMean, step by step               *)
(***************************************************************************)
MaxLen == 3
MaxIdx == 3
\* A column long enough to hold a range wider than WidthLimit.
LongLen == WidthLimit + 2

\* The nullValue arguments of readOmni that the calls are drawn from (9 for
\* Ratio, the default 999 for Bz, Lat, Lon, Bx).
NullValues == {9, 999}

\* Tokens of a column: two measurements (10.0, 20.5), the fill value of the
\* file (9.9 for nullValue 9, 999.9 for 999) and a token without a number.
FillTok(null) == Tok(null * 10 + 9)
Tokens(null) == {Tok(100), Tok(205), FillTok(null), NoNumber}

ShortArrays(null) == UNION {[1..n -> Tokens(null)] : n \in 0..MaxLen}
LongArrays(null) ==
    {[i \in 1..LongLen |-> IF i = p THEN Tok(100) ELSE f] :
        p \in 0..LongLen, f \in {FillTok(null), Tok(205)}}
Arrays(null) == ShortArrays(null) \cup LongArrays(null)

Lows == (-MaxIdx)..MaxIdx
Highs == Lows \cup {WidthLimit + 1}

IdleMean ==
    /\ array = <<>> /\ low = 0 /\ high = 0 /\ nullValue = 999 /\ flag = 0
    /\ avg = NaN /\ mpc = "idle" /\ ret = Undefined /\ arg = [low |-> 0, high |-> 0]
IdleSvm ==
    /\ info = [event |-> <<>>, Wind |-> <<>>] /\ features = <<>> /\ x = <<>>
    /\ spc = "idle" /\ passed = <<>> /\ x1 = <<>>
IdleRun ==
    /\ rpc = "idle" /\ time = [year |-> 2015, month |-> 1, day |-> 1, hour |-> 0, minute |-> 0]
    /\ response = [kind |-> "none", rows |-> <<>>] /\ fetches = 0 /\ wind = Undefined
    /\ travel = [k |-> "none", v |-> 0] /\ log = <<>>

MeanInit ==
    /\ variant \in Variants
    /\ nullValue \in NullValues
    /\ array \in Arrays(nullValue)
    /\ low \in Lows
    /\ high \in Highs
    /\ arg = [low |-> low, high |-> high]
    /\ flag = 0 /\ avg = NaN /\ mpc = "call" /\ ret = Undefined
    /\ IdleSvm /\ IdleRun

locals == MeanState(array, low, high, nullValue, flag, avg)
setLocals(st) ==
    /\ low' = st.low /\ high' = st.high /\ flag' = st.flag /\ avg' = st.avg
    /\ UNCHANGED <<array, nullValue, arg, ret>>

\* main.js:8-14, part_000:7
MeanEnter ==
    /\ mpc = "call"
    /\ setLocals(getMeanEntry(variant, array, low, high, nullValue))
    /\ mpc' = "test"
    /\ UNCHANGED <<variant, svmVars, runVars>>

\* while (isNaN(avg))
MeanTest ==
    /\ mpc = "test"
    /\ mpc' = IF avg.nan THEN "body" ELSE "exit"
    /\ UNCHANGED <<variant, array, low, high, nullValue, flag, avg, ret, arg, svmVars, runVars>>

\* main.js:16-30, part_000:9-25
MeanBody ==
    /\ mpc = "body"
    /\ setLocals(getMeanBody(variant, locals))
    /\ mpc' = "test"
    /\ UNCHANGED <<variant, svmVars, runVars>>

\* main.js:33-37, part_000:27
MeanReturn ==
    /\ mpc = "exit"
    /\ ret' = getMeanExit(variant, locals)
    /\ mpc' = "done"
    /\ UNCHANGED <<variant, array, low, high, nullValue, flag, avg, arg, svmVars, runVars>>

MeanNext == MeanEnter \/ MeanTest \/ MeanBody \/ MeanReturn
SpecMean == MeanInit /\ [][MeanNext]_vars

\* The same call over the columns of at most LoopLen rows, with the fairness
\* of sequential code: a call that can take a step takes it.
LoopLen == 2
LoopInit == MeanInit /\ Len(array) <= LoopLen
FairLoop == LoopInit /\ [][MeanNext]_vars /\ WF_vars(MeanNext)

(***************************************************************************)
(* Objects, feature names and getSvmInput                                  *)
(***************************************************************************)
\* obj[key] of a JavaScript object: undefined for a key it does not hold.
get(obj, key) == IF key \in DOMAIN obj THEN obj[key] ELSE Undefined
\* The object {}.
EmptyObject == <<>>

\* parseFloat of a number or of the string of a number, in units of 1e-5.
parseFloatValue(value) == value.v

\* The feature names a request is drawn from, in the order Array.prototype.sort
\* gives without a comparator (by UTF-16 code unit): the nine names of
\* main.js:77-85, the seven "Solar Wind" names of part_000:71-77, the eight
\* keys of the snapshot, and "Solar Wind Latitude", which no table holds.
Names == <<
    "Bx", "Bz",
    "CME Acceleration", "CME Angular Width", "CME Average Speed",
    "CME Final Speed", "CME Mass", "CME Position Angle",
    "CME Source Region Latitude", "CME Source Region Longitude",
    "CME Speed at 20 Rs",
    "Lat", "Lon", "P", "Ratio",
    "Solar Wind Bx", "Solar Wind Bz", "Solar Wind He Proton Ratio",
    "Solar Wind Latitude", "Solar Wind Longitude", "Solar Wind Pressure",
    "Solar Wind Speed", "Solar Wind Temperature",
    "T", "V" >>
NameSet == {Names[i] : i \in 1..Len(Names)}
Rank(name) == CHOOSE i \in 1..Len(Names) : Names[i] = name

WindKeys == {"Bz", "Ratio", "V", "Lat", "P", "Lon", "Bx", "T"}

\* The event scalar a feature name stands for in the variant's featureMap,
\* undefined when the map has no such key or info lacks the field.
eventScalar(v, inf, feature) ==
    CASE feature = "CME Average Speed"  -> get(inf.event, "Speed")
      [] feature = "CME Final Speed"    -> get(inf.event, "Speed_final")
      [] feature = "CME Angular Width"  -> get(inf.event, "Width")
      [] feature = "CME Mass"           -> get(inf.event, "Mass")
      [] feature = "CME Position Angle" -> get(inf.event, "PA")
      [] v = "main" /\ feature = "CME Acceleration" -> get(inf.event, "Acceleration")
      [] v = "main" /\ feature = "CME Source Region Latitude" -> get(inf.event, "Lat")
      [] v = "main" /\ feature = "CME Source Region Longitude" -> get(inf.event, "Lon")
      [] v = "main" /\ feature = "CME Speed at 20 Rs" -> get(inf.event, "Speed_20")
      [] OTHER -> Undefined

\* The snapshot quantity a feature name stands for: main.js looks the name
\* itself up in info.Wind (line 91); part_000 goes through the seven
\* "Solar Wind" keys of its featureMap (lines 71-77).
windQuantity(v, inf, feature) ==
    IF v = "main" THEN get(inf.Wind, feature)
    ELSE CASE feature = "Solar Wind Bz"              -> get(inf.Wind, "Bz")
           [] feature = "Solar Wind Speed"           -> get(inf.Wind, "V")
           [] feature = "Solar Wind Temperature"     -> get(inf.Wind, "T")
           [] feature = "Solar Wind Pressure"        -> get(inf.Wind, "P")
           [] feature = "Solar Wind Longitude"       -> get(inf.Wind, "Lon")
           [] feature = "Solar Wind He Proton Ratio" -> get(inf.Wind, "Ratio")
           [] feature = "Solar Wind Bx"              -> get(inf.Wind, "Bx")
           [] OTHER -> Undefined

\* features.sort(): the names in code-unit order, equal names in the order
\* they had.  Position i of the list goes before position j when its name
\* ranks lower, or ranks the same and i < j.
sortsBefore(list, i, j) ==
    \/ Rank(list[i]) < Rank(list[j])
    \/ Rank(list[i]) = Rank(list[j]) /\ i < j
sortFeatures(list) ==
    [k \in 1..Len(list) |->
        list[CHOOSE j \in 1..Len(list) :
                Cardinality({i \in 1..Len(list) : sortsBefore(list, i, j)}) = k - 1]]

\* What the forEach callback pushes for one feature: a sequence of one float,
\* or nothing.
pushMain(inf, feature) ==
    IF eventScalar("main", inf, feature) # Undefined
    THEN <<parseFloatValue(eventScalar("main", inf, feature))>>
    ELSE IF windQuantity("main", inf, feature) # Undefined
    THEN <<parseFloatValue(windQuantity("main", inf, feature))>>
    ELSE <<>>
pushPart(inf, feature) ==
    IF eventScalar("part", inf, feature) # Undefined
    THEN <<parseFloatValue(eventScalar("part", inf, feature))>>
    ELSE IF windQuantity("part", inf, feature) # Undefined
    THEN <<parseFloatValue(windQuantity("part", inf, feature))>>
    ELSE <<0>>

RECURSIVE forEachPush(_, _, _)
forEachPush(v, inf, list) ==
    IF list = <<>> THEN <<>>
    ELSE (IF v = "main" THEN pushMain(inf, Head(list)) ELSE pushPart(inf, Head(list)))
         \o forEachPush(v, inf, Tail(list))

\* getSvmInput(info, features): the row x of the result ([x] in main.js, the
\* 1 x n tensor of [x] in part_000) and the caller's array as the call leaves
\* it: main.js sorts it in place.
getSvmInput(v, inf, list) ==
    LET after == IF v = "main" THEN sortFeatures(list) ELSE list
    IN  [x |-> forEachPush(v, inf, after), features |-> after]

(***************************************************************************)
(* Specification SpecSvm: getSvmInput called, and called again             *)
(***************************************************************************)
MaxFeatures == 2

\* The literals of the entry points (main.js:125-129, part_000:131-135).
width == 360
speed == 1212
finalSpeed == 1243
\* 1.9e16, carried in units of 1e15: the literal exceeds the integers of the
\* model checker, and nothing below depends on its magnitude.
mass == 19
mpa == 163
\* A number literal as a float in units of 1e-5.
F5(n) == n * 100000

\* The event scalars of info as the entry points build it, none of them, and
\* all nine that a featureMap reads.
EventOfEntry ==
    [Speed |-> Number(F5(speed)), Speed_final |-> Number(F5(finalSpeed)),
     Width |-> Number(F5(width)), Mass |-> Number(F5(mass)), PA |-> Number(F5(mpa))]
EventAll ==
    [Speed |-> Number(F5(speed)), Speed_final |-> Number(F5(finalSpeed)),
     Width |-> Number(F5(width)), Mass |-> Number(F5(mass)), PA |-> Number(F5(mpa)),
     Acceleration |-> Number(-250000), Lat |-> Number(1200000),
     Lon |-> Number(-3000000), Speed_20 |-> Number(90000000)]
Events == {EmptyObject, EventOfEntry, EventAll}

\* A value as getMean of the variant returns it.
meanValue(v, n) == IF v = "main" THEN Str(n) ELSE Number(n)
\* A snapshot with all eight quantities; Lat is the fallback 1e-5.
FullWind(v) ==
    [Bz |-> meanValue(v, -250000), Ratio |-> meanValue(v, 3000),
     V |-> meanValue(v, 45000000), Lat |-> meanValue(v, 1),
     P |-> meanValue(v, 210000), Lon |-> meanValue(v, 1050000),
     Bx |-> meanValue(v, 330000), T |-> meanValue(v, 900050000)]

\* The request of the entry points (main.js:108-121, part_000:115-128).
featuresList == <<
    "CME Average Speed", "CME Final Speed", "CME Angular Width", "CME Mass",
    "Solar Wind Bz", "Solar Wind Speed", "Solar Wind Temperature",
    "Solar Wind Pressure", "Solar Wind Longitude", "Solar Wind He Proton Ratio",
    "Solar Wind Bx", "CME Position Angle" >>
Requests == UNION {[1..n -> NameSet] : n \in 0..MaxFeatures} \cup {featuresList}

SvmInit ==
    /\ variant \in Variants
    /\ info \in {[event |-> e, Wind |-> w] : e \in Events, w \in {EmptyObject, FullWind(variant)}}
    /\ features \in Requests
    /\ passed = features
    /\ x = <<>> /\ x1 = <<>> /\ spc = "call"
    /\ IdleMean /\ IdleRun

\* The first call, with the caller's info and array.
SvmCall ==
    /\ spc = "call"
    /\ LET r == getSvmInput(variant, info, features)
       IN  x' = r.x /\ x1' = r.x /\ features' = r.features
    /\ spc' = "once"
    /\ UNCHANGED <<variant, info, passed, meanVars, runVars>>

\* The same call repeated with the same two objects.
SvmCallAgain ==
    /\ spc = "once"
    /\ LET r == getSvmInput(variant, info, features)
       IN  x' = r.x /\ features' = r.features
    /\ spc' = "twice"
    /\ UNCHANGED <<variant, info, passed, x1, meanVars, runVars>>

SvmNext == SvmCall \/ SvmCallAgain
SpecSvm == SvmInit /\ [][SvmNext]_vars

(***************************************************************************)
(* getSvmInput: what the specification says of a call                      *)
(***************************************************************************)
\* C2: the vector returned for a request of N names has exactly N entries,
\* whether or not each name can be resolved.
C2_VectorLength == spc # "call" => Len(x) = Len(passed)

\* The entry the specification gives a requested name: the event scalar of
\* that name if present, else the snapshot quantity of that name if present,
\* else 0.0.
C7_Entry(name) ==
    IF eventScalar(variant, info, name) # Undefined
    THEN parseFloatValue(eventScalar(variant, info, name))
    ELSE IF windQuantity(variant, info, name) # Undefined
    THEN parseFloatValue(windQuantity(variant, info, name))
    ELSE 0
\* C7: for every position i of the request, entry i of the vector belongs to
\* the i-th requested name.
C7_EntryPerName ==
    spc = "once" =>
        \A i \in 1..Len(passed) : i <= Len(x) /\ x[i] = C7_Entry(passed[i])

\* C8: a call leaves the caller's request (contents and order) and info as
\* they were, and a second call with the same arguments returns the vector of
\* the first.
C8_PureAndIdempotent ==
    /\ spc # "call" => features = passed
    /\ spc = "twice" => x = x1

(***************************************************************************)
(* getMean: what the specification says of a call                          *)
(***************************************************************************)
\* The rows of the column that exist among lo..hi and hold a measurement: a
\* number whose integer part is not the nullValue.
ValidRows(lo, hi) ==
    {i \in Max(lo, 0)..Min(hi, Len(array) - 1) : keep(array[i + 1], nullValue)}

RECURSIVE SumRows(_)
SumRows(rows) ==
    IF rows = {} THEN 0
    ELSE LET i == CHOOSE r \in rows : TRUE
         IN  parseFloat5(array[i + 1]) + SumRows(rows \ {i})

\* The mean of the measurements in rows lo..hi, rounded to 5 decimal digits.
MeanOfRows(lo, hi) == RoundDiv(SumRows(ValidRows(lo, hi)), Cardinality(ValidRows(lo, hi)))

\* The range as passed, in order.
ArgLo == Min(arg.low, arg.high)
ArgHi == Max(arg.low, arg.high)
\* The largest widening that keeps the width within WidthLimit.
MaxWiden == IF ArgHi - ArgLo > WidthLimit THEN 0 ELSE (WidthLimit - (ArgHi - ArgLo)) \div 2

\* C1: every call of getMean, in both variants and for every column, sentinel
\* and pair low, high, terminates (it returns a number or 1e-5): the widening
\* loop does not run for ever.
C1_GetMeanTerminates == <>(mpc = "done")

\* C5: for an in-bounds range low <= high of any width whose rows hold at
\* least one measurement, getMean returns the mean of exactly those
\* measurements rounded to 5 digits, and the range is not widened.
C5_MeanOfTheRange ==
    (/\ mpc = "done"
     /\ 0 <= arg.low /\ arg.low <= arg.high /\ arg.high < Len(array)
     /\ ValidRows(arg.low, arg.high) # {})
    => (/\ ret.v = MeanOfRows(arg.low, arg.high)
        /\ low = arg.low /\ high = arg.high)

\* C6: when no measurement exists in any range reached by widening
\* [low, high] up to a width of WidthLimit, getMean returns exactly 1e-5.
C6_NoMeasurement == ValidRows(ArgLo - MaxWiden, ArgHi + MaxWiden) = {}
C6_FallbackReturned ==
    (mpc = "call" /\ C6_NoMeasurement) ~> (mpc = "done" /\ ret.v = 1)

\* C9: when rows low..high of the table hold no measurement and k >= 1 is
\* the smallest widening for which rows low-k..high+k (those that exist) hold
\* one, with a width within WidthLimit, getMean returns the mean of the
\* measurements of rows low-k..high+k; also when low-k is below row 0.
C9_SmallestWidening(k) ==
    /\ 0 <= ArgLo /\ ArgHi < Len(array)
    /\ ArgHi - ArgLo + 2 * k <= WidthLimit
    /\ ValidRows(ArgLo - k, ArgHi + k) # {}
    /\ ValidRows(ArgLo - (k - 1), ArgHi + (k - 1)) = {}
C9_MeanOfWidenedRange ==
    \A k \in 1..(WidthLimit \div 2) :
        (mpc = "done" /\ C9_SmallestWidening(k))
        => ret.v = MeanOfRows(ArgLo - k, ArgHi + k)

(***************************************************************************)
(* readOmni                                                                *)
(***************************************************************************)
\* readOmni's default duration, which both entry points use.
duration == 6

\* moment(time).diff(moment(`${year}-01-01`), 'days'): whole days since
\* January 1 of the onset's year.
IsLeapYear(y) == (y % 4 = 0 /\ y % 100 # 0) \/ y % 400 = 0
DaysInMonth(y, m) ==
    CASE m \in {1, 3, 5, 7, 8, 10, 12} -> 31
      [] m \in {4, 6, 9, 11} -> 30
      [] OTHER -> IF IsLeapYear(y) THEN 29 ELSE 28
RECURSIVE DaysBeforeMonth(_, _)
DaysBeforeMonth(y, m) ==
    IF m = 1 THEN 0 ELSE DaysInMonth(y, m - 1) + DaysBeforeMonth(y, m - 1)
doy(t) == DaysBeforeMonth(t.year, t.month) + t.day - 1
\* let idx = doy * 24 + hour
timeIndex(t) == doy(t) * 24 + t.hour

\* The nullValue readOmni passes for each quantity (999 is getMean's default).
nullOf(q) ==
    CASE q = "Ratio" -> 9
      [] q = "V" -> 9999
      [] q = "P" -> 99
      [] q = "T" -> 9999999
      [] OTHER -> 999

\* A row of the split body is an hour of measurements ("data"), an hour of
\* fill values ("fill"), or a line without that many tokens ("blank": the
\* last, empty line of a body, or an empty body), where row[c] is undefined.
dataTok(q) ==
    CASE q = "Bz" -> Tok(-25)
      [] q = "Ratio" -> Tok(1)
      [] q = "V" -> Tok(4500)
      [] q = "Lat" -> Tok(-12)
      [] q = "P" -> Tok(21)
      [] q = "Lon" -> Tok(105)
      [] q = "Bx" -> Tok(33)
      [] OTHER -> Tok(10000)
cell(row, q) ==
    CASE row = "data" -> dataTok(q)
      [] row = "fill" -> FillTok(nullOf(q))
      [] OTHER -> NoNumber
\* data.map(row => row[c]) for the column of quantity q.
columnOf(rows, q) == [i \in 1..Len(rows) |-> cell(rows[i], q)]

\* The body of the try block after the response has arrived: the snapshot of
\* the eight means, or Hangs when a getMean does not return.
readOmniTry(v, t, rows) ==
    LET idx == timeIndex(t)
        w == [q \in WindKeys |->
                getMean(v, columnOf(rows, q), idx, idx + duration, nullOf(q))]
    IN  IF \E q \in WindKeys : w[q] = Hangs THEN Hangs ELSE w

\* A catch block that degrades to a snapshot of fallback values.
readOmniCatchFallbacks == [q \in WindKeys |-> Number(1)]
\* The catch block: the error is logged and readOmni returns {}.
readOmniCatch == EmptyObject

(***************************************************************************)
(* The entry points: moment(time).add(travel, 'hours').format(...)         *)
(***************************************************************************)
\* A transit time: NaN, Infinity, or v hours in units of 1e-5.
TravelNaN == [k |-> "NaN", v |-> 0]
TravelInfinity == [k |-> "Infinity", v |-> 0]
Hours(v) == [k |-> "finite", v |-> v]

\* Seconds of the onset since January 1, 00:00 of its year.
onsetSeconds(t) == (timeIndex(t) * 60 + t.minute) * 60
\* The formatted arrival: "Invalid date" for a transit that is not finite,
\* else the second (since January 1 of the onset's year) the sum falls in;
\* v hours of 1e-5 are v * 36 milliseconds.
InvalidDate == [valid |-> FALSE, s |-> 0]
arrivalOf(t, tr) ==
    IF tr.k # "finite" THEN InvalidDate
    ELSE [valid |-> TRUE, s |-> onsetSeconds(t) + ((tr.v * 36) \div 1000)]

(***************************************************************************)
(* Specification SpecRun: one run of an entry point                        *)
(***************************************************************************)
\* Rows of the answered table beyond the averaged range.
Margin == 3

\* Onsets in the first hours of a year, so that the table of the run stays
\* small: 2015-01-01T00:30 (row 0) and 2015-01-01T05:12 (row 5).
Onsets ==
    {[year |-> 2015, month |-> 1, day |-> 1, hour |-> 0, minute |-> 30],
     [year |-> 2015, month |-> 1, day |-> 1, hour |-> 5, minute |-> 12]}

\* Bodies the archive may answer with: an empty one, and tables of rows up to
\* Margin past the averaged range, ending in the empty last line: all
\* measured, all fill, or fill exactly over the averaged range.
Bodies(idx) ==
    LET n == idx + duration + 1 + Margin
    IN  {<<"blank">>,
         [i \in 1..(n + 1) |-> IF i = n + 1 THEN "blank" ELSE "data"],
         [i \in 1..(n + 1) |-> IF i = n + 1 THEN "blank" ELSE "fill"],
         [i \in 1..(n + 1) |-> IF i = n + 1 THEN "blank"
                               ELSE IF i - 1 \in idx..(idx + duration) THEN "fill"
                               ELSE "data"]}

\* Transit times the predictor may return: NaN, Infinity, -5, 0 and 66.8 hours.
Transits == {TravelNaN, TravelInfinity, Hours(-500000), Hours(0), Hours(6680000)}

RunInit ==
    /\ variant \in Variants
    /\ time \in Onsets
    /\ features = featuresList
    /\ rpc = "start"
    /\ response = [kind |-> "none", rows |-> <<>>]
    /\ fetches = 0 /\ wind = Undefined /\ travel = [k |-> "none", v |-> 0] /\ log = <<>>
    /\ info = [event |-> <<>>, Wind |-> <<>>] /\ x = <<>>
    /\ spc = "idle" /\ passed = <<>> /\ x1 = <<>>
    /\ IdleMean

\* readOmni up to its await: axios.get(url), in part_000 with timeout: 30000.
ReadOmniFetch ==
    /\ rpc = "start"
    /\ rpc' = "fetching"
    /\ fetches' = fetches + 1
    /\ UNCHANGED <<variant, meanVars, svmVars, time, response, wind, travel, log>>

\* The archive answers with a body; the rest of the try block runs.
FetchResponds ==
    /\ rpc = "fetching"
    /\ \E rows \in Bodies(timeIndex(time)) :
        /\ response' = [kind |-> "ok", rows |-> rows]
        /\ LET w == readOmniTry(variant, time, rows)
           IN  IF w = Hangs
               THEN rpc' = "hung" /\ wind' = wind
               ELSE rpc' = "resolved" /\ wind' = w
    /\ UNCHANGED <<variant, meanVars, svmVars, time, fetches, travel, log>>

\* The request is rejected: no connection, or a status outside 2xx.
FetchFails ==
    /\ rpc = "fetching"
    /\ \E kind \in {"network", "status"} : response' = [kind |-> kind, rows |-> <<>>]
    /\ wind' = readOmniCatch
    /\ log' = Append(log, [line |-> "error", what |-> "fetch"])
    /\ rpc' = "resolved"
    /\ UNCHANGED <<variant, meanVars, svmVars, time, fetches, travel>>

\* part_000:36: the 30000 ms pass without an answer and axios rejects.
FetchTimesOut ==
    /\ rpc = "fetching"
    /\ variant = "part"
    /\ response' = [kind |-> "timeout", rows |-> <<>>]
    /\ wind' = readOmniCatch
    /\ log' = Append(log, [line |-> "error", what |-> "fetch"])
    /\ rpc' = "resolved"
    /\ UNCHANGED <<variant, meanVars, svmVars, time, fetches, travel>>

\* info is built around the snapshot and getSvmInput is called.
BuildVector ==
    /\ rpc = "resolved"
    /\ LET built == [event |-> EventOfEntry, Wind |-> wind]
           r == getSvmInput(variant, built, features)
       IN  info' = built /\ x' = r.x /\ features' = r.features
    /\ rpc' = "vector"
    /\ UNCHANGED <<variant, meanVars, spc, passed, x1, time, response, fetches, wind, travel, log>>

\* main.js:149-153.  readFileSync or JSON.parse throws, or the parsed engine
\* is plain data: JSON holds no functions, so engine.scaler.transform(xInput)
\* throws a TypeError.  main() rejects, and console.error prints the error;
\* lines 155-170 are never reached.
EngineFails ==
    /\ rpc = "vector"
    /\ variant = "main"
    /\ \E what \in {"ENOENT", "SyntaxError", "TypeError"} :
        log' = Append(log, [line |-> "error", what |-> what])
    /\ rpc' = "failed"
    /\ UNCHANGED <<variant, meanVars, svmVars, time, response, fetches, wind, travel>>

\* part_000:143-148: a network is trained on random data.
Train ==
    /\ rpc = "vector"
    /\ variant = "part"
    /\ rpc' = "trained"
    /\ UNCHANGED <<variant, meanVars, svmVars, time, response, fetches, wind, travel, log>>

\* part_000:151-152: the network returns some float.
Predict ==
    /\ rpc = "trained"
    /\ travel' \in Transits
    /\ rpc' = "predicted"
    /\ UNCHANGED <<variant, meanVars, svmVars, time, response, fetches, wind, log>>

\* part_000:155-159.
Report ==
    /\ rpc = "predicted"
    /\ log' = log \o << [line |-> "onset", at |-> time],
                        [line |-> "arrival", at |-> arrivalOf(time, travel)],
                        [line |-> "transit", hours |-> travel] >>
    /\ rpc' = "done"
    /\ UNCHANGED <<variant, meanVars, svmVars, time, response, fetches, wind, travel>>

\* The steps the program takes by itself, the timer of axios among them.
RunStep ==
    ReadOmniFetch \/ FetchTimesOut \/ BuildVector \/ EngineFails \/ Train \/ Predict \/ Report
RunNext == RunStep \/ FetchResponds \/ FetchFails
SpecRun == RunInit /\ [][RunNext]_vars
\* The program takes its own steps; the archive owes no answer.
FairRun == SpecRun /\ WF_vars(RunStep)

(***************************************************************************)
(* The run: what the specification says of it                              *)
(***************************************************************************)
\* C3: when the predictor returns a transit time that is not finite or not
\* greater than 0, the run does not complete normally and no arrival time is
\* computed or printed; an arrival is printed only for a finite, positive
\* transit time.
C3_InvalidTransit == travel.k \in {"NaN", "Infinity"} \/ (travel.k = "finite" /\ travel.v <= 0)
C3_ArrivalPrinted == \E i \in 1..Len(log) : log[i].line = "arrival"
C3_InvalidPredictionRejected ==
    C3_InvalidTransit => (rpc # "done" /\ ~C3_ArrivalPrinted)

\* C4: when the fetch fails (no connection, a status outside 2xx, a
\* timeout), readOmni neither throws nor stays pending: it resolves to the
\* empty mapping, and getSvmInput with that snapshot completes and resolves
\* none of the eight quantities: the vector holds the event scalars, and in
\* part_000 a 0.0 for every other name.
C4_FetchFailed == response.kind \in {"network", "status", "timeout"}
RECURSIVE C4_EventsOnly(_)
C4_EventsOnly(list) ==
    IF list = <<>> THEN <<>>
    ELSE (IF eventScalar(variant, info, Head(list)) # Undefined
          THEN <<eventScalar(variant, info, Head(list)).v>>
          ELSE IF variant = "main" THEN <<>> ELSE <<0>>)
         \o C4_EventsOnly(Tail(list))
C4_EmptySnapshotOnFailure ==
    C4_FetchFailed =>
        /\ rpc \in {"resolved", "vector", "failed", "trained", "predicted", "done"}
        /\ wind = EmptyObject
        /\ rpc # "resolved" =>
            /\ \A q \in WindKeys : get(info.Wind, q) = Undefined
            /\ x = C4_EventsOnly(features)
C4_Witness ==
    /\ C4_FetchFailed /\ rpc = "vector" /\ wind = EmptyObject
    /\ x = C4_EventsOnly(features)

\* C10: a call of readOmni issues one fetch and no retry, the vector is
\* built only after readOmni has resolved, and the fetch is bounded by a
\* timeout: it does not stay pending for ever, also when the archive never
\* answers, so that readOmni can resolve.
C10_Resolved == rpc \in {"resolved", "vector", "failed", "trained", "predicted", "done"}
C10_BoundedSingleFetch ==
    /\ [](fetches <= 1)
    /\ [](x # <<>> => C10_Resolved)
    /\ (rpc = "fetching") ~> (rpc # "fetching")

====
